---- MODULE Spec2Model ----
(***************************************************************************)
(* AIDPQueryTool (src/client/ai_ops/src/tools/aidp.py): a LangChain tool   *)
(* that opens a JDBC connection, issues optional USE statements and the    *)
(* caller's SQL on one cursor, and drains rows up to max_rows.             *)
(*                                                                         *)
(* Text is a sequence of one-character strings, so that strip(), `in` and  *)
(* endswith() are computed.  The driver (jaydebeapi) is the environment:   *)
(* connect, cursor, execute and fetchone either succeed or raise.  The     *)
(* close() calls issued by contextlib.closing are taken not to raise.      *)
(***************************************************************************)
EXTENDS Integers, Sequences, FiniteSets, TLC

(* ---------------------------------------------------------------- bounds *)
MaxRowsCap == 3        \* largest max_rows a request carries
MaxAvail == 4          \* largest result set the server holds
NumCalls == 2          \* concurrent _run calls in the concurrent scenario

(* ------------------------------------------------------------------ text *)
None == <<"None">>     \* Python's None; no text equals it (text is made of single characters)
NoErr == [kind |-> "none", stage |-> "none"]

Whitespace == {" ", "\t", "\n"}

RECURSIVE LStrip(_)
LStrip(s) == IF s # <<>> /\ Head(s) \in Whitespace THEN LStrip(Tail(s)) ELSE s

RECURSIVE RStrip(_)
RStrip(s) == IF s # <<>> /\ s[Len(s)] \in Whitespace THEN RStrip(SubSeq(s, 1, Len(s) - 1)) ELSE s

\* str.strip()
Strip(s) == RStrip(LStrip(s))

\* t in s
Contains(s, t) == \E i \in 1..(Len(s) - Len(t) + 1) : SubSeq(s, i, i + Len(t) - 1) = t

\* s.endswith(t)
EndsWith(s, t) == Len(s) >= Len(t) /\ SubSeq(s, Len(s) - Len(t) + 1, Len(s)) = t

\* Python truthiness of an Optional[str]
Truthy(v) == v # None /\ v # <<>>

CfgTok == <<"O","C","I","C","o","n","f","i","g","F","i","l","e","=">>
ProfTok == <<"O","C","I","P","r","o","f","i","l","e","=">>
Backquote == "BACKQUOTE"   \* the character U+0060, which a TLA+ string cannot hold
DriverClass == "com.simba.spark.jdbc.Driver"

(* ------------------------------------------------------------- variables *)
VARIABLES
    environ,     \* the process environment: url, jar, cfg, prof (each text or None)
    req,         \* per call: sql, catalog, schema, max_rows
    data,        \* per call: what the server answers to its SQL (description, nrows)
    pc,          \* per call: position in _run
    preamble,    \* per call: the local list `preamble`
    idx,         \* per call: position of the `for stmt in preamble` loop
    jdbc_url,    \* per call: the local `jdbc_url` of _connect
    conn,        \* per call: the connection handle (0 before _connect returns)
    cur,         \* per call: the cursor (state, pos, fetches)
    cols,        \* per call: the local `cols`
    count,       \* per call: the local `count`
    result,      \* per call: the local dict `result`
    returned,    \* per call: what the caller received (None until/unless _run returns)
    err,         \* per call: the exception in flight / received by the caller
    thrown,      \* per call: the first exception raised inside the call
    issued,      \* per call: statements passed to cur.execute, in order
    connectLog,  \* every jaydebeapi.connect invocation
    conns        \* the connections the driver has handed out

vars == <<environ, req, data, pc, preamble, idx, jdbc_url, conn, cur, cols, count,
          result, returned, err, thrown, issued, connectLog, conns>>

Calls == DOMAIN req

(* ------------------------------------------------- configuration module *)
\* `from src.common.config import`: a required setting that is unset reads as
\* empty text; an optional one reads as None.
ConfigText(v) == IF v = None THEN <<>> ELSE v

AIDP_JDBC_URL == ConfigText(environ.url)
AIDP_JDBC_JAR == ConfigText(environ.jar)
AIDP_OCI_CONFIG_FILE == environ.cfg
AIDP_OCI_PROFILE == environ.prof

(* -------------------------------------------------------------- _connect *)
ConfigMissingNoStrip(url, jar) == url = <<>> \/ jar = <<>>

\* `if not jdbc_url or not jar_path` on the stripped values
ConfigMissing(url, jar) == Strip(url) = <<>> \/ Strip(jar) = <<>>

\* sep = ";" if not jdbc_url.endswith(";") else ""
Sep(url) == IF ~EndsWith(url, <<";">>) THEN <<";">> ELSE <<>>

\* if val and tok not in jdbc_url: jdbc_url = f"{jdbc_url}{sep}{tok}{val}"
AppendParam(url, tok, val) ==
    IF Truthy(val) /\ ~Contains(url, tok) THEN url \o Sep(url) \o tok \o val ELSE url

\* the string _connect passes to jaydebeapi.connect
EffectiveUrl(url, cfg, prof) ==
    AppendParam(AppendParam(Strip(url), CfgTok, cfg), ProfTok, prof)

AcquireConnPooled(cs) == IF cs = <<>> THEN 1 ELSE Len(cs)

\* jaydebeapi.connect(...) returns a connection of its own at every invocation
AcquireConn(cs) == Len(cs) + 1

(* ------------------------------------------------------------------ _run *)
UseCatalog(c) == <<"U","S","E"," ","C","A","T","A","L","O","G"," ",Backquote>> \o c \o <<Backquote>>
UseSchema(s) == <<"U","S","E"," ",Backquote>> \o s \o <<Backquote>>

PreambleSwapped(catalog, schema) ==
    (IF Truthy(schema) THEN <<UseSchema(schema)>> ELSE <<>>)
    \o (IF Truthy(catalog) THEN <<UseCatalog(catalog)>> ELSE <<>>)

\* preamble = []; if catalog: append(USE CATALOG); if schema: append(USE)
Preamble(catalog, schema) ==
    (IF Truthy(catalog) THEN <<UseCatalog(catalog)>> ELSE <<>>)
    \o (IF Truthy(schema) THEN <<UseSchema(schema)>> ELSE <<>>)

\* cols = [d[0] for d in cur.description] if cur.description else []
Cols(description) ==
    IF ~description.none /\ description.d # <<>>
    THEN [i \in 1..Len(description.d) |-> description.d[i][1]]
    ELSE <<>>

LoopBreakOffByOne(row, n, max_rows) == row.none \/ n > max_rows

\* if row is None or count >= max_rows: break
LoopBreak(row, n, max_rows) == row.none \/ n >= max_rows

\* {cols[i]: row[i] for i in range(len(cols))}: a later key overwrites an earlier one
RECURSIVE DictFrom(_, _, _)
DictFrom(cs, row, n) ==
    IF n = 0 THEN <<>> ELSE (cs[n] :> row[n]) @@ DictFrom(cs, row, n - 1)

RowToDict(cs, row) == DictFrom(cs, row, Len(cs))

UnwindNoClose(stage, e) == [next |-> "raised", err |-> e]

UnwindSwallowPreamble(stage, e) ==
    IF stage = "preamble" THEN [next |-> "execute", err |-> NoErr]
    ELSE IF stage \in {"execute", "fetch"} THEN [next |-> "closeCur", err |-> e]
    ELSE IF stage = "cursor" THEN [next |-> "closeConn", err |-> e]
    ELSE [next |-> "raised", err |-> e]

UnwindSwallowFetch(stage, e) ==
    IF stage = "fetch" THEN [next |-> "closeCur", err |-> NoErr]
    ELSE IF stage \in {"preamble", "execute"} THEN [next |-> "closeCur", err |-> e]
    ELSE IF stage = "cursor" THEN [next |-> "closeConn", err |-> e]
    ELSE [next |-> "raised", err |-> e]

\* Where an exception raised at `stage` goes: out of _run from _connect, through
\* closing(conn) from conn.cursor(), through closing(cur) then closing(conn) from
\* inside the cursor block.  No except clause: the exception is kept as it is.
Unwind(stage, e) ==
    IF stage \in {"preamble", "execute", "fetch"} THEN [next |-> "closeCur", err |-> e]
    ELSE IF stage = "cursor" THEN [next |-> "closeConn", err |-> e]
    ELSE [next |-> "raised", err |-> e]

(* ---------------------------------------------------------------- server *)
\* the i-th row of a result set described by `description`
ServerRow(description, i) == [j \in 1..Len(description.d) |-> 10 * i + j]

\* cur.fetchone() with `pos` rows already delivered
FetchOne(d, pos) ==
    IF pos < d.nrows THEN [none |-> FALSE, vals |-> ServerRow(d.description, pos + 1)]
    ELSE [none |-> TRUE, vals |-> <<>>]

(* ------------------------------------------------------------ the inputs *)
Urls ==
    { None, <<>>, <<" ">>, <<"u">>, <<"u", ";">>, <<" ", "u", "\n">>,
      <<"u", ";">> \o CfgTok \o <<"x">>,
      <<"u", ";">> \o ProfTok \o <<"y">> \o <<";">> }
Jars == { None, <<"\t">>, <<"j">> }
Cfgs == { None, <<>>, <<"c">>, <<"c", ";">>, <<"c", "/">> \o ProfTok \o <<"d">> }
Profs == { None, <<>>, <<"p">> }
Environs == [url : Urls, jar : Jars, cfg : Cfgs, prof : Profs]
GoodEnviron == [url |-> <<"u">>, jar |-> <<"j">>, cfg |-> None, prof |-> None]

Names == { None, <<>>, <<"n">> }
Requests == [sql : {<<"q">>}, catalog : Names, schema : Names, max_rows : 1..MaxRowsCap]

Descriptions ==
    { [none |-> TRUE, d |-> <<>>],
      [none |-> FALSE, d |-> <<>>],
      [none |-> FALSE, d |-> << <<"a", "INT">> >>],
      [none |-> FALSE, d |-> << <<"a", "INT">>, <<"b", "INT">> >>],
      [none |-> FALSE, d |-> << <<"a", "INT">>, <<"a", "INT">> >>] }
\* a statement without a result set has no rows to deliver
Datas ==
    { x \in [description : Descriptions, nrows : 0..MaxAvail] :
        (x.description.d = <<>>) => x.nrows = 0 }

\* the request and the server data of call p in the concurrent scenario
RECURSIVE Marks(_)
Marks(p) == IF p = 0 THEN <<>> ELSE <<"x">> \o Marks(p - 1)
ConcReq(p) ==
    [sql |-> <<"q">> \o Marks(p),
     catalog |-> IF p % 2 = 1 THEN <<"c">> \o Marks(p) ELSE None,
     schema |-> IF p % 2 = 0 THEN <<"s">> \o Marks(p) ELSE <<>>,
     max_rows |-> ((p - 1) % MaxRowsCap) + 1]
ConcData(p, two) ==
    [description |-> [none |-> FALSE,
                      d |-> IF two THEN << <<"a", "INT">>, <<"b", "INT">> >>
                                   ELSE << <<"a", "INT">> >>],
     nrows |-> (p + 1) % (MaxAvail + 1)]

NoResult == [some |-> FALSE, rows |-> <<>>, rowcount |-> 0]
NoCursor == [state |-> "none", pos |-> 0, fetches |-> 0]

(* ------------------------------------------------------------------ Init *)
InitLocals ==
    /\ pc = [p \in Calls |-> "start"]
    /\ preamble = [p \in Calls |-> <<>>]
    /\ idx = [p \in Calls |-> 1]
    /\ jdbc_url = [p \in Calls |-> <<>>]
    /\ conn = [p \in Calls |-> 0]
    /\ cur = [p \in Calls |-> NoCursor]
    /\ cols = [p \in Calls |-> <<>>]
    /\ count = [p \in Calls |-> 0]
    /\ result = [p \in Calls |-> [rows |-> <<>>, rowcount |-> 0]]
    /\ returned = [p \in Calls |-> NoResult]
    /\ err = [p \in Calls |-> NoErr]
    /\ thrown = [p \in Calls |-> NoErr]
    /\ issued = [p \in Calls |-> <<>>]
    /\ connectLog = <<>>
    /\ conns = <<>>

\* one call, every environment
InitConfig ==
    /\ environ \in Environs
    /\ req = [p \in {1} |-> [sql |-> <<"q">>, catalog |-> None, schema |-> <<"n">>, max_rows |-> 1]]
    /\ data = [p \in {1} |-> [description |-> [none |-> FALSE, d |-> << <<"a", "INT">> >>],
                              nrows |-> 1]]

\* one call, every request and every result set
InitQuery ==
    /\ environ = GoodEnviron
    /\ \E r \in Requests : req = [p \in {1} |-> r]
    /\ \E x \in Datas : data = [p \in {1} |-> x]

\* NumCalls calls that run concurrently
InitConcurrent ==
    /\ environ = GoodEnviron
    /\ req = [p \in 1..NumCalls |-> ConcReq(p)]
    /\ \E two \in BOOLEAN : data = [p \in 1..NumCalls |-> ConcData(p, two)]

Init == (InitConfig \/ InitQuery \/ InitConcurrent) /\ InitLocals

(* --------------------------------------------------------------- actions *)
DriverError(stage) == [kind |-> "DriverError", stage |-> stage]
ConfigError == [kind |-> "RuntimeError", stage |-> "config"]

\* raise e at `stage` in call p
Raise(p, stage, e) ==
    LET u == Unwind(stage, e) IN
    /\ pc' = [pc EXCEPT ![p] = u.next]
    /\ err' = [err EXCEPT ![p] = u.err]
    /\ thrown' = [thrown EXCEPT ![p] = IF thrown[p] = NoErr THEN e ELSE thrown[p]]

\* _run up to the driver call of _connect: the preamble list, the empty result,
\* the configuration check and the connection string
Begin(p) ==
    /\ pc[p] = "start"
    /\ preamble' = [preamble EXCEPT ![p] = Preamble(req[p].catalog, req[p].schema)]
    /\ result' = [result EXCEPT ![p] = [rows |-> <<>>, rowcount |-> 0]]
    /\ IF ConfigMissing(AIDP_JDBC_URL, AIDP_JDBC_JAR)
       THEN /\ Raise(p, "config", ConfigError)
            /\ UNCHANGED jdbc_url
       ELSE /\ jdbc_url' = [jdbc_url EXCEPT ![p] =
                               EffectiveUrl(AIDP_JDBC_URL, AIDP_OCI_CONFIG_FILE, AIDP_OCI_PROFILE)]
            /\ pc' = [pc EXCEPT ![p] = "connect"]
            /\ UNCHANGED <<err, thrown>>
    /\ UNCHANGED <<environ, req, data, idx, conn, cur, cols, count, returned, issued,
                   connectLog, conns>>

\* conn = jaydebeapi.connect(driver_class, jdbc_url, [], jar_path)
Connect(p) ==
    /\ pc[p] = "connect"
    /\ \E ok \in BOOLEAN :
        /\ connectLog' = Append(connectLog,
               [by |-> p, driver |-> DriverClass, url |-> jdbc_url[p], creds |-> <<>>,
                jar |-> Strip(AIDP_JDBC_JAR), ok |-> ok])
        /\ IF ok
           THEN LET id == AcquireConn(conns) IN
                /\ conns' = IF id > Len(conns)
                            THEN Append(conns, [open |-> TRUE, users |-> {p}])
                            ELSE [conns EXCEPT ![id].users = @ \cup {p}]
                /\ conn' = [conn EXCEPT ![p] = id]
                /\ pc' = [pc EXCEPT ![p] = "cursor"]
                /\ UNCHANGED <<err, thrown>>
           ELSE /\ Raise(p, "connect", DriverError("connect"))
                /\ UNCHANGED <<conns, conn>>
    /\ UNCHANGED <<environ, req, data, preamble, idx, jdbc_url, cur, cols, count, result,
                   returned, issued>>

\* with contextlib.closing(conn.cursor()) as cur
OpenCursor(p) ==
    /\ pc[p] = "cursor"
    /\ conns' = [conns EXCEPT ![conn[p]].users = @ \cup {p}]
    /\ \E ok \in BOOLEAN :
        IF ok
        THEN /\ cur' = [cur EXCEPT ![p] = [state |-> "open", pos |-> 0, fetches |-> 0]]
             /\ pc' = [pc EXCEPT ![p] = IF preamble[p] = <<>> THEN "execute" ELSE "preamble"]
             /\ UNCHANGED <<err, thrown>>
        ELSE /\ Raise(p, "cursor", DriverError("cursor"))
             /\ UNCHANGED cur
    /\ UNCHANGED <<environ, req, data, preamble, idx, jdbc_url, conn, cols, count, result,
                   returned, issued, connectLog>>

\* for stmt in preamble: cur.execute(stmt)
ExecPreamble(p) ==
    /\ pc[p] = "preamble"
    /\ idx[p] <= Len(preamble[p])
    /\ \E ok \in BOOLEAN :
        /\ issued' = [issued EXCEPT ![p] =
               Append(@, [text |-> preamble[p][idx[p]], main |-> FALSE, ok |-> ok])]
        /\ IF ok
           THEN /\ idx' = [idx EXCEPT ![p] = @ + 1]
                /\ pc' = [pc EXCEPT ![p] =
                       IF idx[p] + 1 > Len(preamble[p]) THEN "execute" ELSE "preamble"]
                /\ UNCHANGED <<err, thrown>>
           ELSE /\ Raise(p, "preamble", DriverError("preamble"))
                /\ UNCHANGED idx
    /\ UNCHANGED <<environ, req, data, preamble, jdbc_url, conn, cur, cols, count, result,
                   returned, connectLog, conns>>

\* cur.execute(sql); cols = ...; count = 0
ExecSql(p) ==
    /\ pc[p] = "execute"
    /\ \E ok \in BOOLEAN :
        /\ issued' = [issued EXCEPT ![p] =
               Append(@, [text |-> req[p].sql, main |-> TRUE, ok |-> ok])]
        /\ IF ok
           THEN /\ cols' = [cols EXCEPT ![p] = Cols(data[p].description)]
                /\ count' = [count EXCEPT ![p] = 0]
                /\ pc' = [pc EXCEPT ![p] = "fetch"]
                /\ UNCHANGED <<err, thrown>>
           ELSE /\ Raise(p, "execute", DriverError("execute"))
                /\ UNCHANGED <<cols, count>>
    /\ UNCHANGED <<environ, req, data, preamble, idx, jdbc_url, conn, cur, result,
                   returned, connectLog, conns>>

\* one turn of `while True`: fetchone, the break test, the append; on break,
\* result["rowcount"] = count and the cursor block is left
Fetch(p) ==
    /\ pc[p] = "fetch"
    /\ \E ok \in BOOLEAN :
        IF ok
        THEN LET row == FetchOne(data[p], cur[p].pos) IN
             /\ cur' = [cur EXCEPT ![p].pos = IF row.none THEN @ ELSE @ + 1,
                                   ![p].fetches = @ + 1]
             /\ IF LoopBreak(row, count[p], req[p].max_rows)
                THEN /\ result' = [result EXCEPT ![p].rowcount = count[p]]
                     /\ pc' = [pc EXCEPT ![p] = "closeCur"]
                     /\ UNCHANGED count
                ELSE /\ result' = [result EXCEPT ![p].rows =
                                      Append(@, RowToDict(cols[p], row.vals))]
                     /\ count' = [count EXCEPT ![p] = @ + 1]
                     /\ UNCHANGED pc
             /\ UNCHANGED <<err, thrown>>
        ELSE /\ Raise(p, "fetch", DriverError("fetch"))
             /\ UNCHANGED <<cur, result, count>>
    /\ UNCHANGED <<environ, req, data, preamble, idx, jdbc_url, conn, cols, returned,
                   issued, connectLog, conns>>

\* closing(cur).__exit__: cur.close()
CloseCursor(p) ==
    /\ pc[p] = "closeCur"
    /\ cur' = [cur EXCEPT ![p].state = "closed"]
    /\ pc' = [pc EXCEPT ![p] = "closeConn"]
    /\ UNCHANGED <<environ, req, data, preamble, idx, jdbc_url, conn, cols, count, result,
                   returned, err, thrown, issued, connectLog, conns>>

\* closing(conn).__exit__: conn.close(); then `return result`, or the exception
\* in flight leaves _run
CloseConn(p) ==
    /\ pc[p] = "closeConn"
    /\ conns' = [conns EXCEPT ![conn[p]].open = FALSE, ![conn[p]].users = @ \cup {p}]
    /\ IF err[p] = NoErr
       THEN /\ pc' = [pc EXCEPT ![p] = "done"]
            /\ returned' = [returned EXCEPT ![p] =
                   [some |-> TRUE, rows |-> result[p].rows, rowcount |-> result[p].rowcount]]
       ELSE /\ pc' = [pc EXCEPT ![p] = "raised"]
            /\ UNCHANGED returned
    /\ UNCHANGED <<environ, req, data, preamble, idx, jdbc_url, conn, cur, cols, count,
                   result, err, thrown, issued, connectLog>>

Next ==
    \/ \E p \in Calls : Begin(p)
    \/ \E p \in Calls : Connect(p)
    \/ \E p \in Calls : OpenCursor(p)
    \/ \E p \in Calls : ExecPreamble(p)
    \/ \E p \in Calls : ExecSql(p)
    \/ \E p \in Calls : Fetch(p)
    \/ \E p \in Calls : CloseCursor(p)
    \/ \E p \in Calls : CloseConn(p)

Spec == Init /\ [][Next]_vars

(* ---------------------------------------------------------------- claims *)
Min(a, b) == IF a <= b THEN a ELSE b

\* C1: a call that returns, made with a positive max_rows = N against a result
\* set of M rows, returns rowcount = min(N, M) and as many rows as rowcount.
C1_RowcountIsMin ==
    \A p \in Calls :
        (returned[p].some /\ req[p].max_rows > 0) =>
            /\ returned[p].rowcount = Min(req[p].max_rows, data[p].nrows)
            /\ Len(returned[p].rows) = returned[p].rowcount

C1_Witness ==
    \E p \in Calls :
        /\ returned[p].some
        /\ data[p].nrows > req[p].max_rows
        /\ returned[p].rowcount = req[p].max_rows
        /\ Len(returned[p].rows) >= 2

\* C2: once _run has returned or raised, the connection it opened is closed and
\* the cursor it opened on it is closed, wherever the exception came from.
C2_ResourcesReleased ==
    \A p \in Calls :
        (pc[p] \in {"done", "raised"} /\ conn[p] # 0) =>
            /\ ~conns[conn[p]].open
            /\ cur[p].state # "open"

C2_Witness ==
    \E p \in Calls :
        /\ pc[p] = "raised"
        /\ thrown[p] = DriverError("fetch")
        /\ conn[p] # 0
        /\ ~conns[conn[p]].open
        /\ cur[p].state = "closed"

\* C3: the statements passed to the cursor are, in this order: USE CATALOG iff
\* catalog is non-empty, USE schema iff schema is non-empty, then the SQL once;
\* a call that returns has issued all of them.
C3_StatementOrder ==
    \A p \in Calls :
        LET nC == IF Truthy(req[p].catalog) THEN 1 ELSE 0
            nS == IF Truthy(req[p].schema) THEN 1 ELSE 0
        IN
        /\ Len(issued[p]) <= nC + nS + 1
        /\ \A i \in 1..Len(issued[p]) :
              issued[p][i].text =
                  IF i <= nC THEN UseCatalog(req[p].catalog)
                  ELSE IF i <= nC + nS THEN UseSchema(req[p].schema)
                  ELSE req[p].sql
        /\ returned[p].some => Len(issued[p]) = nC + nS + 1

C3_Witness ==
    \E p \in Calls :
        /\ returned[p].some
        /\ Truthy(req[p].catalog) /\ Truthy(req[p].schema)
        /\ Len(issued[p]) = 3

\* C4: when a preamble statement fails, nothing is executed after it (no later
\* preamble statement, no main SQL), no row is fetched, and _run fails with
\* that error.
C4_PreambleFailureStops ==
    \A p \in Calls :
        \A i \in 1..Len(issued[p]) :
            (~issued[p][i].ok /\ ~issued[p][i].main) =>
                /\ i = Len(issued[p])
                /\ \A k \in 1..Len(issued[p]) : ~issued[p][k].main
                /\ cur[p].fetches = 0
                /\ ~returned[p].some
                /\ pc[p] \in {"closeCur", "closeConn", "raised"}
                /\ err[p] = DriverError("preamble")

C4_Witness ==
    \E p \in Calls :
        /\ pc[p] = "raised"
        /\ Len(preamble[p]) = 2
        /\ Len(issued[p]) = 1
        /\ ~issued[p][1].ok
        /\ err[p] = DriverError("preamble")

\* text that is unset, empty or whitespace only
Blank(v) == v = None \/ \A i \in 1..Len(v) : v[i] \in Whitespace

\* C5: with AIDP_JDBC_URL or AIDP_JDBC_JAR missing or blank, _connect raises the
\* configuration error, jaydebeapi.connect is never called, no statement is
\* executed and nothing is returned.
C5_BlankConfigFailsFast ==
    (Blank(environ.url) \/ Blank(environ.jar)) =>
        /\ connectLog = <<>>
        /\ \A p \in Calls :
              /\ conn[p] = 0
              /\ issued[p] = <<>>
              /\ ~returned[p].some
              /\ pc[p] \in {"start", "raised"}
              /\ pc[p] = "raised" => err[p] = ConfigError

C5_Witness ==
    /\ environ.url = <<" ">>
    /\ environ.jar = <<"j">>
    /\ \E p \in Calls : pc[p] = "raised" /\ err[p] = ConfigError

\* C6: an error raised by the driver reaches the caller as it was raised and
\* instead of a result (also when rows were already collected), and nothing
\* is attempted a second time.
C6_ErrorsPropagate ==
    \A p \in Calls :
        /\ Cardinality({k \in DOMAIN connectLog : connectLog[k].by = p}) <= 1
        /\ Cardinality({k \in DOMAIN issued[p] : issued[p][k].main}) <= 1
        /\ Len(issued[p]) <= Len(preamble[p]) + 1
        /\ thrown[p].kind = "DriverError" =>
              /\ ~returned[p].some
              /\ pc[p] \in {"closeCur", "closeConn", "raised"}
              /\ err[p] = thrown[p]

C6_Witness ==
    \E p \in Calls :
        /\ pc[p] = "raised"
        /\ thrown[p] = DriverError("fetch")
        /\ Len(result[p].rows) >= 1
        /\ err[p] = thrown[p]
        /\ ~returned[p].some

\* the connection string the specification describes: each parameter is tested
\* against the configured URL
ClaimedUrl ==
    LET base == Strip(ConfigText(environ.url))
        withCfg == IF Truthy(environ.cfg) /\ ~Contains(base, CfgTok)
                   THEN base \o (IF EndsWith(base, <<";">>) THEN <<>> ELSE <<";">>)
                             \o CfgTok \o environ.cfg
                   ELSE base
    IN IF Truthy(environ.prof) /\ ~Contains(base, ProfTok)
       THEN withCfg \o (IF EndsWith(withCfg, <<";">>) THEN <<>> ELSE <<";">>)
                    \o ProfTok \o environ.prof
       ELSE withCfg

\* C7: the string passed to the driver is the URL with one OCIConfigFile= segment
\* and one OCIProfile= segment appended, each after exactly one ";", for every
\* value that is specified and whose token is not embedded in the URL.
C7_UrlHasEachParameter ==
    \A k \in DOMAIN connectLog : connectLog[k].url = ClaimedUrl

\* C8: rows[i] maps each column name of the descriptor to the value at the same
\* position of the i-th server row; without a descriptor there are no columns.
C8_RowsMapColumnsPositionally ==
    \A p \in Calls :
        returned[p].some =>
            LET desc == data[p].description IN
            /\ desc.none => cols[p] = <<>>
            /\ \A i \in 1..Len(returned[p].rows) :
                  \A j \in 1..Len(desc.d) :
                      /\ desc.d[j][1] \in DOMAIN returned[p].rows[i]
                      /\ returned[p].rows[i][desc.d[j][1]] = ServerRow(desc, i)[j]

\* what call p returns when it runs alone
AloneResult(p) ==
    LET n == Min(req[p].max_rows, data[p].nrows) IN
    [some |-> TRUE,
     rows |-> [i \in 1..n |-> RowToDict(Cols(data[p].description),
                                        ServerRow(data[p].description, i))],
     rowcount |-> n]

\* C9: every call opens one connection and one cursor of its own; no connection
\* is used by two calls; what a call returns and what it issues do not depend
\* on the calls running beside it.
C9_CallsAreIndependent ==
    /\ \A p \in Calls :
          /\ Cardinality({k \in DOMAIN connectLog : connectLog[k].by = p}) <= 1
          /\ conn[p] # 0 => Cardinality({k \in DOMAIN connectLog :
                                            connectLog[k].by = p /\ connectLog[k].ok}) = 1
          /\ conn[p] # 0 => conns[conn[p]].users = {p}
          /\ returned[p].some => returned[p] = AloneResult(p)
          /\ returned[p].some =>
                [i \in 1..Len(issued[p]) |-> issued[p][i].text]
                    = Preamble(req[p].catalog, req[p].schema) \o <<req[p].sql>>
    /\ \A c \in DOMAIN conns : Cardinality(conns[c].users) = 1
    /\ \A p, q \in Calls : (p # q /\ conn[p] # 0) => conn[p] # conn[q]

C9_Witness ==
    \E p, q \in Calls :
        /\ p # q
        /\ pc[p] = "fetch" /\ count[p] >= 1
        /\ pc[q] = "fetch" /\ count[q] >= 1
        /\ conn[p] # conn[q]
        /\ conns[conn[p]].open /\ conns[conn[q]].open

\* C10: no row is taken from the cursor once max_rows rows have been collected:
\* the server delivers at most max_rows rows to a call.
C10_NoFetchAfterCap ==
    \A p \in Calls : cur[p].pos <= req[p].max_rows

====
